---- MODULE Spec2Model ----
(***************************************************************************)
(* Model of the attribute macro toml_label (src/lib.rs): one expansion is  *)
(* a linear pipeline from the raw argument text to the emitted enum and    *)
(* WithLabel implementation.  Text is a sequence of one-character strings  *)
(* so that split / trim / starts_with / to_uppercase are computed as the   *)
(* code computes them.                                                     *)
(***************************************************************************)
EXTENDS Integers, Sequences, FiniteSets, TLC

VARIABLES pc, run, args_str, input, file_path, opened, disk, toml_content,
          toml_data, pairs, out, err, prev_out

vars == <<pc, run, args_str, input, file_path, opened, disk, toml_content,
          toml_data, pairs, out, err, prev_out>>

(* ------------------------------ bounds --------------------------------- *)
MaxKeyLen == 1
MaxEntries == 2
MaxId == 1
MaxRuns == 2

(* ------------------------------ text ----------------------------------- *)
Range(s) == {s[i] : i \in 1..Len(s)}

Lower == <<"a","b","c","d","e","f","g","h","i","j","k","l","m",
           "n","o","p","q","r","s","t","u","v","w","x","y","z">>
Upper == <<"A","B","C","D","E","F","G","H","I","J","K","L","M",
           "N","O","P","Q","R","S","T","U","V","W","X","Y","Z">>
Digits == <<"0","1","2","3","4","5","6","7","8","9">>

\* char::to_uppercase: a sequence of characters (one lower-case letter gives
\* one capital; every other character of the alphabet used here is unchanged)
to_uppercase(c) ==
  IF \E i \in 1..Len(Lower) : Lower[i] = c
    THEN <<Upper[CHOOSE i \in 1..Len(Lower) : Lower[i] = c]>>
    ELSE <<c>>

RECURSIVE split(_, _)
\* str::split(sep): the pieces between separators, empty pieces included
split(s, sep) ==
  IF \A i \in 1..Len(s) : s[i] # sep
    THEN <<s>>
    ELSE LET k == CHOOSE i \in 1..Len(s) :
                    s[i] = sep /\ \A j \in 1..(i-1) : s[j] # sep
         IN <<SubSeq(s, 1, k-1)>> \o split(SubSeq(s, k+1, Len(s)), sep)

RECURSIVE trim_start_matches(_, _)
trim_start_matches(s, c) ==
  IF s # <<>> /\ s[1] = c THEN trim_start_matches(Tail(s), c) ELSE s

RECURSIVE trim_end_matches(_, _)
trim_end_matches(s, c) ==
  IF s # <<>> /\ s[Len(s)] = c
    THEN trim_end_matches(SubSeq(s, 1, Len(s)-1), c) ELSE s

\* str::trim_matches(c): every leading and every trailing c removed
trim_matches(s, c) == trim_end_matches(trim_start_matches(s, c), c)

\* str::trim(): surrounding white space removed (the space is the only
\* white-space character of the texts modelled)
trim(s) == trim_matches(s, " ")

starts_with(s, p) == Len(s) >= Len(p) /\ SubSeq(s, 1, Len(p)) = p

contains(s, c) == \E i \in 1..Len(s) : s[i] = c

RECURSIVE concat(_)
\* Iterator<Item = String>::collect::<String>()
concat(ss) == IF ss = <<>> THEN <<>> ELSE Head(ss) \o concat(Tail(ss))

\* variant of camel_word: every character is upper-cased
camel_word_all_upper(word) ==
  concat([i \in 1..Len(word) |-> to_uppercase(word[i])])

\* the closure of to_camel_case: c.next() and the match on it
camel_word(word) ==
  IF word = <<>> THEN <<>> ELSE to_uppercase(Head(word)) \o Tail(word)

to_camel_case(s) ==
  LET words == split(s, " ")
  IN concat([i \in 1..Len(words) |-> camel_word(words[i])])

RECURSIVE decimal(_)
\* Display for u32, as used by format!("unknown{}", i)
decimal(n) ==
  IF n < 10 THEN <<Digits[n+1]>> ELSE decimal(n \div 10) \o <<Digits[(n % 10)+1]>>

(* ------------------------------ inputs --------------------------------- *)
Q == "\""
T_file == <<"f","i","l","e">>

\* args.to_string() of the attribute's argument tokens
A_ok    == T_file \o <<" ","="," ",Q,"l",Q>>
A_path  == <<"p","a","t","h"," ","="," ",Q,"l",Q>>
A_filex == T_file \o <<"x"," ","="," ",Q,"l",Q>>
A_eq    == T_file \o <<" ","="," ",Q,"a","=","b",Q>>
A_two   == A_ok \o <<","," ","x">>
A_noeq  == T_file
A_empty == <<>>
ArgTexts == {A_ok, A_path, A_filex, A_eq, A_two, A_noeq, A_empty}

\* the declaration the attribute is attached to
Kinds == {"enum", "struct", "fn"}
Inputs == {[kind |-> k, vis |-> "pub", ident |-> "MyLabel"] : k \in Kinds}

KeyChars == {"a", " "}
K_big_dog == <<"b","i","g"," ","d","o","g">>
K_unknown == <<"u","n","k","n","o","w","n">>
K_lead == <<" ","a">>
K_mixed == <<"a","B">>
K_spaces == <<"a"," "," ","B"," ">>
Keys == UNION {[1..k -> KeyChars] : k \in 0..MaxKeyLen}
        \cup {K_lead, K_mixed, K_spaces, K_big_dog, K_unknown}

\* values a key of the file may carry
Vals == 0..MaxId

RECURSIVE SubsetsUpTo(_, _)
SubsetsUpTo(S, n) ==
  IF n = 0 THEN {{}}
  ELSE LET P == SubsetsUpTo(S, n-1) IN P \cup {p \cup {x} : p \in P, x \in S}

\* a flat table of the file: unique keys, one value each
\* and one table with a value that is not a u32
Tables == UNION {[K -> Vals] : K \in SubsetsUpTo(Keys, MaxEntries)}
          \cup {[k \in {<<"a">>} |-> -1]}

NoTable == [k \in {} |-> 0]

\* what the mapping file holds: text that is not a table, or a table
Contents == {[syntax_ok |-> FALSE, table |-> NoTable]}
            \cup {[syntax_ok |-> TRUE, table |-> t] : t \in Tables}

\* fs::read_to_string: Err(e), or Ok(content)
ReadResults == {[ok |-> FALSE, content |-> [syntax_ok |-> FALSE, table |-> NoTable]]}
               \cup {[ok |-> TRUE, content |-> c] : c \in Contents}

(* ------------------------------ helpers -------------------------------- *)
\* syn::Error::new(..).to_compile_error(): a spanned compile_error item
to_compile_error(msg, detail) ==
  <<[item |-> "compile_error", msg |-> msg, detail |-> detail, spanned |-> TRUE]>>

IsU32(v) == v >= 0

\* HashMap::into_iter().collect(): the entries in any order
IterOrders(table) ==
  LET E == {<<k, table[k]>> : k \in DOMAIN table}
      n == Cardinality(E)
  IN {s \in [1..n -> E] : \A i, j \in 1..n : i # j => s[i] # s[j]}

RECURSIVE sort_by_key(_)
\* slice::sort_by_key(|(_, id)| *id): stable, ascending
sort_by_key(s) ==
  IF s = <<>> THEN <<>>
  ELSE LET n == Len(s)
           x == s[n]
           r == sort_by_key(SubSeq(s, 1, n-1))
           k == Cardinality({i \in 1..Len(r) : r[i][2] <= x[2]})
       IN SubSeq(r, 1, k) \o <<x>> \o SubSeq(r, k+1, Len(r))

IdentStart == Range(Lower) \cup Range(Upper) \cup {"_"}
IdentContinue == IdentStart \cup Range(Digits)

\* Ident::new accepts the string (it panics otherwise)
ValidIdent(s) ==
  /\ s # <<>>
  /\ s[1] \in IdentStart
  /\ \A i \in 2..Len(s) : s[i] \in IdentContinue

I_Unknown == <<"U","n","k","n","o","w","n">>

(* ------------------------------ pipeline ------------------------------- *)
Init ==
  /\ pc = "ParseArgs"
  /\ run = 1
  /\ args_str \in ArgTexts
  /\ input \in Inputs
  /\ file_path = <<>>
  /\ opened = {}
  /\ disk = {}
  /\ toml_content = [syntax_ok |-> FALSE, table |-> NoTable]
  /\ toml_data = <<>>
  /\ pairs = <<>>
  /\ out = <<>>
  /\ err = "none"
  /\ prev_out = <<>>

enum_vars == [i \in 1..Len(pairs) |-> pairs[i].ident]
\* variant of vars_id: the arms are numbered by position
vars_id_by_position == [i \in 1..Len(pairs) |-> <<i - 1, pairs[i].ident>>]

vars_id == [i \in 1..Len(pairs) |-> <<pairs[i].id, pairs[i].ident>>]
\* variant of label_name: the arm returns the identifier, not the raw name
label_name_of_ident == [i \in 1..Len(pairs) |-> <<pairs[i].ident, pairs[i].ident>>]

label_name == [i \in 1..Len(pairs) |-> <<pairs[i].ident, pairs[i].name>>]
label_id == [i \in 1..Len(pairs) |-> <<pairs[i].ident, pairs[i].id>>]
\* variant of label_num: the Unknown member is counted too
label_num_all_members == Len(pairs) + 1

label_num == Len(pairs)

\* the quote! block: the enum declaration and the WithLabel implementation
expanded ==
  <<[item |-> "enum", vis |-> input.vis, name |-> input.ident,
     variants |-> [i \in 1..Len(enum_vars) |->
                     [name |-> enum_vars[i], payload |-> FALSE]]
                  \o <<[name |-> I_Unknown, payload |-> TRUE]>>],
    [item |-> "impl", name |-> input.ident, LABEL_NUM |-> label_num,
     vars_id |-> vars_id, label_name |-> label_name, label_id |-> label_id]>>

\* variant of Fail: the generated items are returned after the error
Fail_with_items(items) ==
  /\ pc' = "CompileError"
  /\ out' = items \o expanded
  /\ err' = "diagnostic"

\* return of a compile_error token stream
Fail(items) ==
  /\ pc' = "CompileError"
  /\ out' = items
  /\ err' = "diagnostic"

ParseArgs ==
  /\ pc = "ParseArgs"
  /\ LET parts == split(args_str, ",")
         file_arg == trim(parts[1])
     IN IF Len(parts) # 1
          THEN /\ Fail(to_compile_error("Expected format: file = \"path\"", <<>>))
               /\ UNCHANGED file_path
          ELSE IF ~starts_with(trim(file_arg), T_file) \/ ~contains(file_arg, "=")
            THEN /\ Fail(to_compile_error("First argument must be file path", <<>>))
                 /\ UNCHANGED file_path
            ELSE /\ file_path' = trim_matches(trim(split(file_arg, "=")[2]), Q)
                 /\ pc' = "LoadFile"
                 /\ UNCHANGED <<out, err>>
  /\ UNCHANGED <<run, args_str, input, opened, disk, toml_content, toml_data,
                 pairs, prev_out>>

LoadFile ==
  /\ pc = "LoadFile"
  /\ opened' = opened \cup {file_path}
  /\ \E r \in (IF disk = {} THEN ReadResults ELSE disk) :
       /\ disk' = {r}
       /\ IF r.ok
            THEN /\ toml_content' = r.content
                 /\ pc' = "ValidateAndOrder"
                 /\ UNCHANGED <<out, err>>
            ELSE /\ Fail(to_compile_error("Failed to read file", file_path))
                 /\ UNCHANGED toml_content
  /\ UNCHANGED <<run, args_str, input, file_path, toml_data, pairs, prev_out>>

ValidateAndOrder ==
  /\ pc = "ValidateAndOrder"
  /\ IF ~toml_content.syntax_ok
        \/ \E k \in DOMAIN toml_content.table : ~IsU32(toml_content.table[k])
       THEN /\ Fail(to_compile_error("Failed to parse TOML file", <<>>))
            /\ UNCHANGED toml_data
       ELSE \E data \in IterOrders(toml_content.table) :
              /\ toml_data' = sort_by_key(data)
              /\ IF input.kind \notin {"struct", "enum", "union"}
                   THEN \* parse_macro_input!: DeriveInput is a struct, an enum
                        \* or a union; syn's error is returned as it is
                        Fail(to_compile_error(
                               "expected one of: struct, enum, union", <<>>))
                   ELSE IF input.kind # "enum"
                     THEN Fail(<<[item |-> "compile_error",
                                  msg |-> "This macro can only be used on enums",
                                  detail |-> <<>>, spanned |-> FALSE]>>)
                     ELSE /\ pc' = "DeriveIdentifiers"
                          /\ UNCHANGED <<out, err>>
  /\ UNCHANGED <<run, args_str, input, file_path, opened, disk, toml_content,
                 pairs, prev_out>>

DeriveIdentifiers ==
  /\ pc = "DeriveIdentifiers"
  /\ IF \E i \in 1..Len(toml_data) : ~ValidIdent(to_camel_case(toml_data[i][1]))
       THEN /\ pc' = "CompileError"
            /\ err' = "panic"
            /\ UNCHANGED <<pairs, out>>
       ELSE /\ pairs' = [i \in 1..Len(toml_data) |->
                           [ident |-> to_camel_case(toml_data[i][1]),
                            id |-> toml_data[i][2],
                            name |-> toml_data[i][1]]]
            /\ pc' = "Emit"
            /\ UNCHANGED <<out, err>>
  /\ UNCHANGED <<run, args_str, input, file_path, opened, disk, toml_content,
                 toml_data, prev_out>>

Emit ==
  /\ pc = "Emit"
  /\ out' = expanded
  /\ pc' = "Done"
  /\ UNCHANGED <<run, args_str, input, file_path, opened, disk, toml_content,
                 toml_data, pairs, err, prev_out>>

\* the compiler expands the same attribute again: same argument, same
\* declaration, the mapping file unchanged
NewInvocation ==
  /\ pc \in {"Done", "CompileError"}
  /\ run < MaxRuns
  /\ run' = run + 1
  /\ prev_out' = out
  /\ pc' = "ParseArgs"
  /\ file_path' = <<>>
  /\ opened' = {}
  /\ toml_content' = [syntax_ok |-> FALSE, table |-> NoTable]
  /\ toml_data' = <<>>
  /\ pairs' = <<>>
  /\ out' = <<>>
  /\ err' = "none"
  /\ UNCHANGED <<args_str, input, disk>>

Next ==
  \/ ParseArgs
  \/ LoadFile
  \/ ValidateAndOrder
  \/ DeriveIdentifiers
  \/ Emit
  \/ NewInvocation

Spec == Init /\ [][Next]_vars

(* ---------------------- the generated conversion ----------------------- *)
\* values of the generated enum
Variant(ident) == [tag |-> "Var", ident |-> ident, i |-> 0]
Unknown(i) == [tag |-> "Unknown", ident |-> I_Unknown, i |-> i]

Emitted == pc = "Done"
EnumItem == out[1]
Impl == out[2]

\* a match picks the first arm whose pattern fits
FirstArm(arms, key) == CHOOSE i \in 1..Len(arms) :
                         arms[i][1] = key /\ \A j \in 1..(i-1) : arms[j][1] # key

from_label_id(id) ==
  IF \E i \in 1..Len(Impl.vars_id) : Impl.vars_id[i][1] = id
    THEN Variant(Impl.vars_id[FirstArm(Impl.vars_id, id)][2])
    ELSE Unknown(id)

\* variant of to_label_str: a space between "unknown" and the number
to_label_str_spaced(self) ==
  IF self.tag = "Var"
    THEN Impl.label_name[CHOOSE i \in 1..Len(Impl.label_name) :
                           Impl.label_name[i][1] = self.ident
                           /\ \A j \in 1..(i-1) : Impl.label_name[j][1] # self.ident][2]
    ELSE <<"u","n","k","n","o","w","n"," ">> \o decimal(self.i)

to_label_str(self) ==
  IF self.tag = "Var"
    THEN Impl.label_name[FirstArm(Impl.label_name, self.ident)][2]
    ELSE <<"u","n","k","n","o","w","n">> \o decimal(self.i)

to_label_id(self) ==
  IF self.tag = "Var"
    THEN Impl.label_id[FirstArm(Impl.label_id, self.ident)][2]
    ELSE self.i

(* ------------------------- auxiliary notions --------------------------- *)
Terminal == pc \in {"Done", "CompileError"}

\* the ids the mapping holds, and the ids the conversions are probed with
PresentIds == {toml_data[i][2] : i \in 1..Len(toml_data)}
ProbeIds == 0..(MaxId + 1) \cup {12, 305}

\* the emitted enum is a legal declaration: no two members share a name
EnumWellFormed ==
  \A i, j \in 1..Len(EnumItem.variants) :
    i # j => EnumItem.variants[i].name # EnumItem.variants[j].name

OrdinaryVariants ==
  {Variant(EnumItem.variants[i].name) :
     i \in {k \in 1..Len(EnumItem.variants) : ~EnumItem.variants[k].payload}}

HasCode(o) == \E i \in 1..Len(o) : o[i].item \in {"enum", "impl"}

\* the first entry, in emitted order, that carries the id
FirstEntry(id) == CHOOSE i \in 1..Len(toml_data) :
                    toml_data[i][2] = id /\ \A j \in 1..(i-1) : toml_data[j][2] # id

RECURSIVE DecimalValue(_)
\* the number a digit string denotes
DecimalValue(ds) ==
  IF ds = <<>> THEN 0
  ELSE 10 * DecimalValue(SubSeq(ds, 1, Len(ds)-1))
       + ((CHOOSE k \in 1..10 : Digits[k] = ds[Len(ds)]) - 1)

IsCanonicalDecimal(ds) ==
  /\ ds # <<>>
  /\ \A i \in 1..Len(ds) : ds[i] \in Range(Digits)
  /\ (Len(ds) > 1 => ds[1] # "0")

(* ------------------------------- C1 ------------------------------------ *)
\* C1 as stated: every entry (name, id) of the mapping round-trips, that is
\* from_label_id(id).to_label_id() = id and from_label_id(id).to_label_str()
\* is that entry's raw name.
C1_AsStated ==
  (Emitted /\ EnumWellFormed) =>
    \A i \in 1..Len(toml_data) :
      /\ to_label_id(from_label_id(toml_data[i][2])) = toml_data[i][2]
      /\ to_label_str(from_label_id(toml_data[i][2])) = toml_data[i][1]

\* C1 amended: when the emitted enum is a legal declaration, every id present
\* in the mapping satisfies from_label_id(id).to_label_id() = id, and
\* from_label_id(id).to_label_str() is the raw name of the first entry, in
\* emitted order, that carries the id.
C1_RoundTripKnownIds ==
  (Emitted /\ EnumWellFormed) =>
    \A id \in PresentIds :
      /\ to_label_id(from_label_id(id)) = id
      /\ to_label_str(from_label_id(id)) = toml_data[FirstEntry(id)][1]

\* two entries share an id and the enum is legal
C1_Witness ==
  /\ Emitted /\ EnumWellFormed
  /\ Len(toml_data) = 2
  /\ toml_data[1][2] = toml_data[2][2]
  /\ to_label_str(from_label_id(toml_data[1][2])) = toml_data[1][1]

(* ------------------------------- C2 ------------------------------------ *)
\* C2: an id absent from the mapping converts to Unknown(id), whose string is
\* "unknown" followed by the decimal numeral of id and whose id is id.
C2_UnknownFallback ==
  Emitted =>
    \A id \in ProbeIds \ PresentIds :
      LET v == from_label_id(id)
          s == to_label_str(v)
      IN /\ v.tag = "Unknown" /\ v.i = id
         /\ starts_with(s, K_unknown)
         /\ IsCanonicalDecimal(SubSeq(s, 8, Len(s)))
         /\ DecimalValue(SubSeq(s, 8, Len(s))) = id
         /\ to_label_id(v) = id

C2_Witness ==
  /\ Emitted
  /\ Len(toml_data) >= 1
  /\ 12 \notin PresentIds
  /\ to_label_str(from_label_id(12)) = K_unknown \o <<"1","2">>

C4_Deterministic ==
  (run = 2 /\ Terminal) => out = prev_out

(* ------------------------------- C5 ------------------------------------ *)
\* C5: when the argument was accepted and the mapping loaded, a declaration
\* that is not an enum ends in the failure "This macro can only be used on
\* enums".
C5_NotEnumMessage ==
  ( /\ Terminal
    /\ opened # {}
    /\ toml_content.syntax_ok
    /\ \A k \in DOMAIN toml_content.table : IsU32(toml_content.table[k])
    /\ input.kind # "enum" )
  => /\ pc = "CompileError"
     /\ Len(out) = 1
     /\ out[1].item = "compile_error"
     /\ out[1].msg = "This macro can only be used on enums"

(* ------------------------------- C6 ------------------------------------ *)
\* the key of a single key = value segment
ArgKey(a) == trim(split(a, "=")[1])

\* C6: a single argument whose key is not the literal file is rejected with
\* the failure citing the form file = "path"; no file is read, no code emitted.
C6_WrongKeyRejected ==
  ( /\ pc # "ParseArgs"
    /\ Len(split(args_str, ",")) = 1
    /\ contains(args_str, "=")
    /\ ArgKey(args_str) # T_file )
  => /\ pc = "CompileError"
     /\ opened = {}
     /\ Len(out) = 1
     /\ out[1].item = "compile_error"
     /\ out[1].msg = "Expected format: file = \"path\""

(* ------------------------------- C7 ------------------------------------ *)
Stages == <<"ParseArgs", "LoadFile", "ValidateAndOrder", "DeriveIdentifiers",
            "Emit", "Done">>

StageEdges ==
  {<<Stages[i], Stages[i+1]>> : i \in 1..5}
  \cup {<<Stages[i], "CompileError">> : i \in 1..5}

\* C7: within one expansion the stages are visited in the listed order, a
\* failing stage goes straight to CompileError, nothing follows it, and an
\* expansion that ended in CompileError returned neither the enum nor the
\* implementation.
C7_LinearPipeline ==
  /\ [][(run' = run) => <<pc, pc'>> \in StageEdges]_vars
  /\ [](pc = "CompileError" => ~HasCode(out))

\* a failure after the mapping was ordered
C7_Witness ==
  /\ pc = "CompileError"
  /\ Len(toml_data) > 0
  /\ ~HasCode(out)

(* ------------------------------- C8 ------------------------------------ *)
\* the text after the first occurrence of c
AfterFirst(s, c) ==
  LET k == CHOOSE i \in 1..Len(s) : s[i] = c /\ \A j \in 1..(i-1) : s[j] # c
  IN SubSeq(s, k+1, Len(s))

StripQuotePair(s) ==
  IF Len(s) >= 2 /\ s[1] = Q /\ s[Len(s)] = Q THEN SubSeq(s, 2, Len(s)-1) ELSE s

\* C8: the path read is the text after the first = of the accepted segment,
\* trimmed of white space and of one pair of double quotes.
C8_PathAfterFirstEq ==
  \A p \in opened : p = StripQuotePair(trim(AfterFirst(trim(args_str), "=")))

(* ------------------------------- C9 ------------------------------------ *)
RECURSIVE CamelFrom(_, _)
\* character by character: spaces vanish, a character that opens a token is
\* upper-cased, every other character is kept
CamelFrom(s, i) ==
  IF i > Len(s) THEN <<>>
  ELSE (IF s[i] = " " THEN <<>>
        ELSE IF i = 1 \/ s[i-1] = " " THEN to_uppercase(s[i])
        ELSE <<s[i]>>) \o CamelFrom(s, i+1)

\* C9: the identifier derived from a key is its space-separated tokens, each
\* with only its first character upper-cased, joined without separator;
\* "big dog" derives BigDog.
C9_CamelCase ==
  /\ \A i \in 1..Len(toml_data) :
       /\ to_camel_case(toml_data[i][1]) = CamelFrom(toml_data[i][1], 1)
       /\ toml_data[i][1] = K_big_dog =>
            to_camel_case(toml_data[i][1]) = <<"B","i","g","D","o","g">>
  /\ \A i \in 1..Len(pairs) : pairs[i].ident = CamelFrom(pairs[i].name, 1)

C9_Witness ==
  /\ pc = "Emit"
  /\ \E i \in 1..Len(pairs) :
       pairs[i].name = K_big_dog /\ pairs[i].ident = <<"B","i","g","D","o","g">>
  /\ \E i \in 1..Len(pairs) :
       pairs[i].name = K_spaces /\ pairs[i].ident = <<"A","B">>

(* ------------------------------- C10 ----------------------------------- *)
\* C10: when the ids are pairwise distinct and the derived identifiers are
\* pairwise distinct, from_label_id(v.to_label_id()) = v for every ordinary
\* member v.
C10_InverseOnOrdinary ==
  ( /\ Emitted
    /\ \A i, j \in 1..Len(pairs) :
         i # j => pairs[i].id # pairs[j].id /\ pairs[i].ident # pairs[j].ident )
  => \A v \in OrdinaryVariants : from_label_id(to_label_id(v)) = v

C10_Witness ==
  /\ Emitted
  /\ Len(pairs) = 2
  /\ pairs[1].id # pairs[2].id
  /\ pairs[1].ident # pairs[2].ident
  /\ \A v \in OrdinaryVariants : from_label_id(to_label_id(v)) = v

====
